---- MODULE Spec2Model ----
(***************************************************************************)
(* Model of the example DHCP server of dhcp4r (examples/server.rs): the    *)
(* lease table, the rotating cursor and the handler MyServer::             *)
(* handle_request with its helpers available, current_lease, reply, nak.   *)
(*                                                                         *)
(* An Ipv4Addr is modelled by its u32 value (Ipv4Addr::from is a           *)
(* bijection), a hardware address by an identifier, an Instant by a whole  *)
(* number of ticks.  One call of handle_request is one step; the clock     *)
(* reads made during the call return the same instant.  Each arm of the    *)
(* match is an operator from the server's fields and the packet to the     *)
(* outcomes the call can have, and the actions apply it to the state.      *)
(***************************************************************************)
EXTENDS Integers, Sequences, FiniteSets, TLC

VARIABLES leases, last_lease, now, in_packet, sent

vars == <<leases, last_lease, now, in_packet, sent>>

(***************************************************************************)
(* Configuration.  The pool is scaled down from 100 addresses, time is     *)
(* counted in units of one lease duration (7200 s), and the leading octets *)
(* of IP_START (192.168.0.180) are zero so that addresses fit TLC's        *)
(* integers; the code's u32 arithmetic on them does not overflow either.   *)
(***************************************************************************)
IP_START == <<0, 0, 0, 180>>

LEASE_DURATION_SECS == 1

LEASE_NUM == 2

\* the clock is observed for ExtraTicks ticks beyond one lease duration
ExtraTicks == 1

MaxTime == LEASE_DURATION_SECS + ExtraTicks

\* hardware addresses of the clients
Macs == {"M1", "M2"}

\* big-endian bytes to u32
bytes_u32(b) == ((b[1] * 256 + b[2]) * 256 + b[3]) * 256 + b[4]

\* u32 to big-endian bytes
u32_bytes(n) ==
    << (n \div 16777216) % 256, (n \div 65536) % 256, (n \div 256) % 256, n % 256 >>

IP_START_NUM == bytes_u32(IP_START)

\* Option<T>: None is the empty sequence, Some(x) the sequence of x alone
None == << >>

Some(x) == << x >>

unwrap(o) == o[1]

\* the unspecified address 0.0.0.0
Unspecified == 0

(***************************************************************************)
(* Incoming packets.                                                       *)
(***************************************************************************)
PoolAddrs == { IP_START_NUM + i : i \in 0 .. (LEASE_NUM - 1) }

\* addresses a client may name: the pool, the address just above it, 0.0.0.0
ClientAddrs == PoolAddrs \cup {IP_START_NUM + LEASE_NUM, Unspecified}

\* values of the requested-address option: absent, 4 bytes, or 3 bytes
RequestedOptions ==
    {None} \cup { Some(u32_bytes(a)) : a \in PoolAddrs \cup {IP_START_NUM + LEASE_NUM} }
           \cup { Some(<<0, 0, 180>>) }

HandledTypes == {"Discover", "Request", "Release", "Decline"}

OtherTypes == {"Offer", "Ack", "Nak", "Inform", "Unknown"}

Packet(t, m, c, o, f) ==
    [message_type |-> t, chaddr |-> m, ciaddr |-> c,
     requested |-> o, to_this_server |-> f]

NoPacket == Packet("NoPacket", "none", Unspecified, None, FALSE)

\* Discover does not read the current-address field nor the server identifier
DiscoverPackets ==
    { Packet("Discover", m, Unspecified, o, TRUE) : m \in Macs, o \in RequestedOptions }

\* Requests to this server with every option value and an empty
\* current-address field, or with a current address and no option or an
\* option naming another address; one Request to another server, which is
\* dropped before any other field is read
RequestPackets ==
    { Packet("Request", m, Unspecified, o, TRUE) : m \in Macs, o \in RequestedOptions }
      \cup
    { Packet("Request", m, IP_START_NUM + 1, o, TRUE) :
        m \in Macs, o \in {None, Some(u32_bytes(IP_START_NUM))} }
      \cup
    { Packet("Request", "M1", Unspecified, Some(u32_bytes(IP_START_NUM)), FALSE) }

\* Release and Decline to this server from every client, and one of each to
\* another server, which is dropped before the client is read
ReleasePackets ==
    { Packet(t, m, Unspecified, None, TRUE) : t \in {"Release", "Decline"}, m \in Macs }
      \cup
    { Packet(t, "M1", Unspecified, None, FALSE) : t \in {"Release", "Decline"} }

\* the catch-all arm reads no field of the packet
OtherPackets ==
    { Packet(t, "M1", Unspecified, None, TRUE) : t \in OtherTypes }

\* in_packet.option(options::REQUESTED_IP_ADDRESS)
option(p) == p.requested

\* server.for_this_server(&in_packet)
for_this_server(p) == p.to_this_server

(***************************************************************************)
(* The lease table: HashMap<Ipv4Addr, ([u8; 6], Instant)>.                 *)
(***************************************************************************)
Lease(owner, expires) == [owner |-> owner, expires |-> expires]

\* HashMap::new()
EmptyMap == [a \in {} |-> Lease("none", 0)]

\* insert that starts from an empty table
insert_clearing(map, k, v) == [a \in {k} |-> v]

\* HashMap::insert
insert(map, k, v) == [a \in DOMAIN map \cup {k} |-> IF a = k THEN v ELSE map[a]]

\* remove that empties the table
remove_all(map, k) == [a \in {} |-> map[a]]

\* HashMap::remove
remove(map, k) == [a \in DOMAIN map \ {k} |-> map[a]]

\* available that counts a lease as expired at its expiry instant
available_expiry_inclusive(ls, t, chaddr, pos) ==
    /\ pos >= IP_START_NUM
    /\ pos < IP_START_NUM + LEASE_NUM
    /\ IF pos \in DOMAIN ls
         THEN ls[pos].owner = chaddr \/ t >= ls[pos].expires
         ELSE TRUE

\* available with the expiry comparison reversed
available_expiry_reversed(ls, t, chaddr, pos) ==
    /\ pos >= IP_START_NUM
    /\ pos < IP_START_NUM + LEASE_NUM
    /\ IF pos \in DOMAIN ls
         THEN ls[pos].owner = chaddr \/ t < ls[pos].expires
         ELSE TRUE

\* available without the lower bound of the pool
available_no_lower_bound(ls, t, chaddr, pos) ==
    /\ pos < IP_START_NUM + LEASE_NUM
    /\ IF pos \in DOMAIN ls
         THEN ls[pos].owner = chaddr \/ t > ls[pos].expires
         ELSE TRUE

\* available with the upper bound of the pool included
available_upper_inclusive(ls, t, chaddr, pos) ==
    /\ pos >= IP_START_NUM
    /\ pos <= IP_START_NUM + LEASE_NUM
    /\ IF pos \in DOMAIN ls
         THEN ls[pos].owner = chaddr \/ t > ls[pos].expires
         ELSE TRUE

\* available that does not let the owner have its own live lease
available_not_own(ls, t, chaddr, pos) ==
    /\ pos >= IP_START_NUM
    /\ pos < IP_START_NUM + LEASE_NUM
    /\ IF pos \in DOMAIN ls
         THEN t > ls[pos].expires
         ELSE TRUE

\* MyServer::available on the table ls at the instant t
available(ls, t, chaddr, pos) ==
    /\ pos >= IP_START_NUM
    /\ pos < IP_START_NUM + LEASE_NUM
    /\ IF pos \in DOMAIN ls
         THEN ls[pos].owner = chaddr \/ t > ls[pos].expires
         ELSE TRUE

\* current_lease with the comparison of the owner negated
current_lease_of_others(ls, chaddr) ==
    LET owned == { i \in DOMAIN ls : ls[i].owner # chaddr }
    IN  IF owned = {} THEN {None} ELSE { Some(i) : i \in owned }

\* MyServer::current_lease: the results the scan can return.  The
\* iteration order of the HashMap is arbitrary, so when several entries
\* have the owner any of them may be returned first; None when there is none.
current_lease(ls, chaddr) ==
    LET owned == { i \in DOMAIN ls : ls[i].owner = chaddr }
    IN  IF owned = {} THEN {None} ELSE { Some(i) : i \in owned }

(***************************************************************************)
(* Replies handed to the transport.                                        *)
(***************************************************************************)
DhcpOption(code, data) == [code |-> code, data |-> data]

\* fn reply
reply(msg_type, offer_ip) ==
    [msg_type |-> msg_type,
     options  |-> << DhcpOption("IP_ADDRESS_LEASE_TIME", "LEASE_DURATION_BYTES"),
                     DhcpOption("SUBNET_MASK", "SUBNET_MASK"),
                     DhcpOption("ROUTER", "ROUTER_IP"),
                     DhcpOption("DOMAIN_NAME_SERVER", "DNS_IPS") >>,
     offer_ip |-> offer_ip]

\* fn nak
nak(message) ==
    [msg_type |-> "Nak",
     options  |-> << DhcpOption("MESSAGE", message) >>,
     offer_ip |-> Unspecified]

(***************************************************************************)
(* handle_request.  Each arm of the match maps the server's fields and the *)
(* packet to the fields it leaves and the replies it sends, in order.      *)
(***************************************************************************)
Outcome(ls, last, s) == [leases |-> ls, last_lease |-> last, sent |-> s]

\* a probe loop that writes a lease for the address it offers
RECURSIVE probe_reserving(_, _, _, _, _)
probe_reserving(ls, t, chaddr, last, n) ==
    IF n = 0
      THEN Outcome(ls, last, << >>)
      ELSE LET l == (last + 1) % LEASE_NUM
           IN  IF available(ls, t, chaddr, IP_START_NUM + l)
                 THEN Outcome(insert(ls, IP_START_NUM + l,
                                     Lease(chaddr, t + LEASE_DURATION_SECS)),
                              l,
                              << reply("Offer", IP_START_NUM + l) >>)
                 ELSE probe_reserving(ls, t, chaddr, l, n - 1)

\* a probe loop that tests the address at the cursor before it advances
RECURSIVE probe_test_first(_, _, _, _, _)
probe_test_first(ls, t, chaddr, last, n) ==
    IF n = 0
      THEN Outcome(ls, last, << >>)
      ELSE IF available(ls, t, chaddr, IP_START_NUM + last)
             THEN Outcome(ls, last, << reply("Offer", IP_START_NUM + last) >>)
             ELSE probe_test_first(ls, t, chaddr, (last + 1) % LEASE_NUM, n - 1)

\* a probe loop without the break after the reply
RECURSIVE probe_no_break(_, _, _, _, _)
probe_no_break(ls, t, chaddr, last, n) ==
    IF n = 0
      THEN Outcome(ls, last, << >>)
      ELSE LET l == (last + 1) % LEASE_NUM
               rest == probe_no_break(ls, t, chaddr, l, n - 1)
           IN  IF available(ls, t, chaddr, IP_START_NUM + l)
                 THEN Outcome(ls, rest.last_lease,
                              << reply("Offer", IP_START_NUM + l) >> \o rest.sent)
                 ELSE rest

\* a probe loop that advances the cursor without the modulo
RECURSIVE probe_no_wrap(_, _, _, _, _)
probe_no_wrap(ls, t, chaddr, last, n) ==
    IF n = 0
      THEN Outcome(ls, last, << >>)
      ELSE LET l == last + 1
           IN  IF available(ls, t, chaddr, IP_START_NUM + l)
                 THEN Outcome(ls, l, << reply("Offer", IP_START_NUM + l) >>)
                 ELSE probe_no_wrap(ls, t, chaddr, l, n - 1)

\* the probe loop of the Discover arm with n iterations left
RECURSIVE probe(_, _, _, _, _)
probe(ls, t, chaddr, last, n) ==
    IF n = 0
      THEN Outcome(ls, last, << >>)
      ELSE LET l == (last + 1) % LEASE_NUM
           IN  IF available(ls, t, chaddr, IP_START_NUM + l)
                 THEN Outcome(ls, l, << reply("Offer", IP_START_NUM + l) >>)
                 ELSE probe(ls, t, chaddr, l, n - 1)

\* the values the cursor takes in the probe loop with n iterations left, in order
RECURSIVE probed(_, _, _, _, _)
probed(ls, t, chaddr, last, n) ==
    IF n = 0
      THEN << >>
      ELSE LET l == (last + 1) % LEASE_NUM
           IN  IF available(ls, t, chaddr, IP_START_NUM + l)
                 THEN << l >>
                 ELSE << l >> \o probed(ls, t, chaddr, l, n - 1)

\* a Discover arm whose probe loop runs one iteration too many
discover_long_probe(ls, last, t, p) ==
    IF /\ option(p) # None
       /\ Len(unwrap(option(p))) = 4
       /\ available(ls, t, p.chaddr, bytes_u32(unwrap(option(p))))
      THEN { Outcome(ls, last, << reply("Offer", bytes_u32(unwrap(option(p)))) >>) }
      ELSE { IF ip # None
               THEN Outcome(ls, last, << reply("Offer", unwrap(ip)) >>)
               ELSE probe(ls, t, p.chaddr, last, LEASE_NUM + 1)
             : ip \in current_lease(ls, p.chaddr) }

\* a Discover arm that prefers the existing lease to the client's choice
discover_existing_first(ls, last, t, p) ==
    { IF ip # None
        THEN Outcome(ls, last, << reply("Offer", unwrap(ip)) >>)
        ELSE IF /\ option(p) # None
                /\ Len(unwrap(option(p))) = 4
                /\ available(ls, t, p.chaddr, bytes_u32(unwrap(option(p))))
               THEN Outcome(ls, last, << reply("Offer", bytes_u32(unwrap(option(p)))) >>)
               ELSE probe(ls, t, p.chaddr, last, LEASE_NUM)
      : ip \in current_lease(ls, p.chaddr) }

\* a Discover arm whose probe loop runs one iteration short
discover_short_probe(ls, last, t, p) ==
    IF /\ option(p) # None
       /\ Len(unwrap(option(p))) = 4
       /\ available(ls, t, p.chaddr, bytes_u32(unwrap(option(p))))
      THEN { Outcome(ls, last, << reply("Offer", bytes_u32(unwrap(option(p)))) >>) }
      ELSE { IF ip # None
               THEN Outcome(ls, last, << reply("Offer", unwrap(ip)) >>)
               ELSE probe(ls, t, p.chaddr, last, LEASE_NUM - 1)
             : ip \in current_lease(ls, p.chaddr) }

\* a Discover arm that offers the client's choice without asking available
discover_trusting_client(ls, last, t, p) ==
    IF /\ option(p) # None
       /\ Len(unwrap(option(p))) = 4
      THEN { Outcome(ls, last, << reply("Offer", bytes_u32(unwrap(option(p)))) >>) }
      ELSE { IF ip # None
               THEN Outcome(ls, last, << reply("Offer", unwrap(ip)) >>)
               ELSE probe(ls, t, p.chaddr, last, LEASE_NUM)
             : ip \in current_lease(ls, p.chaddr) }

\* the Discover arm: the outcomes it can have
discover(ls, last, t, p) ==
    IF /\ option(p) # None
       /\ Len(unwrap(option(p))) = 4
       /\ available(ls, t, p.chaddr, bytes_u32(unwrap(option(p))))
      THEN { Outcome(ls, last, << reply("Offer", bytes_u32(unwrap(option(p)))) >>) }
      ELSE { IF ip # None
               THEN Outcome(ls, last, << reply("Offer", unwrap(ip)) >>)
               ELSE probe(ls, t, p.chaddr, last, LEASE_NUM)
             : ip \in current_lease(ls, p.chaddr) }

\* the address a Request asks for, once the option is absent or has 4 bytes
req_ip(p) ==
    IF option(p) = None THEN p.ciaddr ELSE bytes_u32(unwrap(option(p)))

\* a Request arm without the test of the server identifier
request_any_server(ls, last, t, p) ==
    IF option(p) # None /\ Len(unwrap(option(p))) # 4
      THEN Outcome(ls, last, << >>)
      ELSE IF ~ available(ls, t, p.chaddr, req_ip(p))
             THEN Outcome(ls, last, << nak("Requested IP not available") >>)
             ELSE Outcome(insert(ls, req_ip(p),
                                 Lease(p.chaddr, t + LEASE_DURATION_SECS)),
                          last,
                          << reply("Ack", req_ip(p)) >>)

\* a Request arm that takes an option of the wrong length as absent
request_malformed_as_absent(ls, last, t, p) ==
    IF ~ for_this_server(p)
      THEN Outcome(ls, last, << >>)
      ELSE LET ip == IF option(p) = None \/ Len(unwrap(option(p))) # 4
                       THEN p.ciaddr
                       ELSE bytes_u32(unwrap(option(p)))
           IN  IF ~ available(ls, t, p.chaddr, ip)
                 THEN Outcome(ls, last, << nak("Requested IP not available") >>)
                 ELSE Outcome(insert(ls, ip, Lease(p.chaddr, t + LEASE_DURATION_SECS)),
                              last,
                              << reply("Ack", ip) >>)

\* the Request arm
request(ls, last, t, p) ==
    IF ~ for_this_server(p)
      THEN Outcome(ls, last, << >>)
      ELSE IF option(p) # None /\ Len(unwrap(option(p))) # 4
             THEN Outcome(ls, last, << >>)
             ELSE IF ~ available(ls, t, p.chaddr, req_ip(p))
                    THEN Outcome(ls, last, << nak("Requested IP not available") >>)
                    ELSE Outcome(insert(ls, req_ip(p),
                                        Lease(p.chaddr, t + LEASE_DURATION_SECS)),
                                 last,
                                 << reply("Ack", req_ip(p)) >>)

\* the Release | Decline arm: the outcomes it can have
release(ls, last, t, p) ==
    IF ~ for_this_server(p)
      THEN { Outcome(ls, last, << >>) }
      ELSE { IF ip # None
               THEN Outcome(remove(ls, unwrap(ip)), last, << >>)
               ELSE Outcome(ls, last, << >>)
             : ip \in current_lease(ls, p.chaddr) }

\* handle_request: the match on the message type
handle_request(ls, last, t, p) ==
    CASE p.message_type = "Discover" -> discover(ls, last, t, p)
      [] p.message_type = "Request" -> { request(ls, last, t, p) }
      [] p.message_type \in {"Release", "Decline"} -> release(ls, last, t, p)
      [] OTHER -> { Outcome(ls, last, << >>) }

(***************************************************************************)
(* The server loop: packets are handled one at a time, each to completion. *)
(***************************************************************************)
Serve(p) ==
    \E r \in handle_request(leases, last_lease, now, p) :
        /\ in_packet' = p
        /\ leases' = r.leases
        /\ last_lease' = r.last_lease
        /\ sent' = r.sent
        /\ UNCHANGED now

\* a Discover arrives
HandleDiscover ==
    \E p \in DiscoverPackets :
        /\ p.message_type = "Discover"
        /\ Serve(p)

\* a Request arrives
HandleRequest ==
    \E p \in RequestPackets :
        /\ p.message_type = "Request"
        /\ Serve(p)

\* a Release or a Decline arrives
HandleRelease ==
    \E p \in ReleasePackets :
        /\ p.message_type \in {"Release", "Decline"}
        /\ Serve(p)

\* a packet of any other type arrives
HandleOther ==
    \E p \in OtherPackets :
        /\ p.message_type \notin HandledTypes
        /\ Serve(p)

\* the clock advances between two packets
Tick ==
    /\ now < MaxTime
    /\ now' = now + 1
    /\ UNCHANGED <<leases, last_lease, in_packet, sent>>

\* main: the server starts with an empty table and the cursor at 0
Init ==
    /\ leases = EmptyMap
    /\ last_lease = 0
    /\ now = 0
    /\ in_packet = NoPacket
    /\ sent = << >>

Next == HandleDiscover \/ HandleRequest \/ HandleRelease \/ HandleOther \/ Tick

Spec == Init /\ [][Next]_vars

Packets == DiscoverPackets \cup RequestPackets \cup ReleasePackets \cup OtherPackets

\* the outcomes handling p can have in the current state
Outcomes(p) == handle_request(leases, last_lease, now, p)

TypeOK ==
    /\ DOMAIN leases \subseteq ClientAddrs
    /\ \A a \in DOMAIN leases : leases[a].owner \in Macs
    /\ last_lease \in 0 .. (LEASE_NUM - 1)
    /\ now \in 0 .. MaxTime
    /\ in_packet \in Packets \cup {NoPacket}

(***************************************************************************)
(* Vocabulary of the statements below.                                     *)
(***************************************************************************)
\* the lease store's admission rule as the specification words it
isAvailable(owner, a) ==
    /\ a \in PoolAddrs
    /\ \/ a \notin DOMAIN leases
       \/ leases[a].owner = owner
       \/ leases[a].expires < now

\* the requested-address option is absent or exactly 4 bytes long
WellFormed(p) == p.requested = << >> \/ Len(p.requested[1]) = 4

\* p is a Request addressed to this server that resolves to an address
ResolvedRequest(p) ==
    p.message_type = "Request" /\ p.to_this_server /\ WellFormed(p)

\* the replies s are exactly one reply of type t carrying address a
OneReply(s, t, a) == Len(s) = 1 /\ s[1].msg_type = t /\ s[1].offer_ip = a

\* the replies s are exactly one Nak with the reason text
OneNak(s) ==
    /\ OneReply(s, "Nak", Unspecified)
    /\ s[1].options = << [code |-> "MESSAGE", data |-> "Requested IP not available"] >>

\* the addresses whose entry names owner
Held(ls, owner) == { a \in DOMAIN ls : ls[a].owner = owner }

(***************************************************************************)
(* C1  A live lease is never stolen: when the entry of address a has owner *)
(* o and its expiry has not passed, handling any packet of a client other  *)
(* than o leaves the entry of a as it was, and a Request for a from such a *)
(* client is answered with a Nak.                                          *)
(***************************************************************************)
\* the addresses whose entry is live and names an owner other than client
LiveOfOthers(client) ==
    { a \in DOMAIN leases : ~ (now > leases[a].expires) /\ leases[a].owner # client }

C1_LiveLeaseNotStolen ==
    \A p \in Packets :
      LiveOfOthers(p.chaddr) # {} =>
        \A r \in Outcomes(p) :
          \A a \in LiveOfOthers(p.chaddr) :
            /\ a \in DOMAIN r.leases
            /\ r.leases[a] = leases[a]
            /\ (ResolvedRequest(p) /\ req_ip(p) = a) => OneNak(r.sent)

\* another client's Request for a live lease has just been refused
C1_Witness ==
    /\ ResolvedRequest(in_packet)
    /\ req_ip(in_packet) \in DOMAIN leases
    /\ leases[req_ip(in_packet)].owner # in_packet.chaddr
    /\ leases[req_ip(in_packet)].expires >= now
    /\ OneNak(sent)

(***************************************************************************)
(* C2  available(owner, address) is true exactly when the address lies in  *)
(* [start, start+count) and there is no entry for it, or the entry's owner *)
(* is owner, or the entry's expiry is in the past.                         *)
(***************************************************************************)
\* the pool, its two neighbours on either side, and the unspecified address
ProbedAddrs ==
    {Unspecified} \cup (IP_START_NUM - 2) .. (IP_START_NUM + LEASE_NUM + 1)

C2_AvailableIffRule ==
    \A m \in Macs :
      \A a \in ProbedAddrs :
        /\ available(leases, now, m, a) <=>
              /\ IP_START_NUM <= a
              /\ a < IP_START_NUM + LEASE_NUM
              /\ \/ a \notin DOMAIN leases
                 \/ leases[a].owner = m
                 \/ leases[a].expires < now
        /\ (a \in PoolAddrs /\ a \notin DOMAIN leases) => available(leases, now, m, a)
        /\ (a \in PoolAddrs /\ a \in DOMAIN leases /\ leases[a].expires < now)
              => available(leases, now, m, a)
        /\ a \notin PoolAddrs => ~ available(leases, now, m, a)

\* the table holds an expired and a live lease, and a Request was refused
C2_Witness ==
    /\ \E a \in DOMAIN leases : leases[a].expires < now
    /\ \E b \in DOMAIN leases : leases[b].expires >= now
    /\ in_packet.message_type = "Request"
    /\ OneNak(sent)

(***************************************************************************)
(* C3  A Request addressed to this server whose resolved address is        *)
(* available to the sender is committed: the entry of that address becomes *)
(* (sender, now + lease duration), every other entry and the cursor are    *)
(* unchanged, and exactly one Ack with that address is sent.  So a Request *)
(* for the address a Discover of the same client was just offered is       *)
(* Acked with expiry now + lease duration.                                 *)
(***************************************************************************)
Committed(p, r) ==
    LET a == req_ip(p)
    IN  /\ DOMAIN r.leases = DOMAIN leases \cup {a}
        /\ r.leases[a] = [owner |-> p.chaddr, expires |-> now + LEASE_DURATION_SECS]
        /\ \A b \in DOMAIN leases \ {a} : r.leases[b] = leases[b]
        /\ r.last_lease = last_lease
        /\ OneReply(r.sent, "Ack", a)

C3_RequestCommits ==
    /\ \A p \in RequestPackets :
         (ResolvedRequest(p) /\ isAvailable(p.chaddr, req_ip(p))) =>
           \A r \in Outcomes(p) : Committed(p, r)
    /\ (in_packet.message_type = "Discover" /\ Len(sent) = 1 /\ sent[1].msg_type = "Offer") =>
         \A p \in RequestPackets :
           (/\ ResolvedRequest(p)
            /\ p.chaddr = in_packet.chaddr
            /\ req_ip(p) = sent[1].offer_ip) =>
             \A r \in Outcomes(p) : Committed(p, r)

\* a Request has just been committed beside another owner's entry
C3_Witness ==
    /\ ResolvedRequest(in_packet)
    /\ OneReply(sent, "Ack", req_ip(in_packet))
    /\ req_ip(in_packet) \in DOMAIN leases
    /\ leases[req_ip(in_packet)] =
          [owner |-> in_packet.chaddr, expires |-> now + LEASE_DURATION_SECS]
    /\ \E b \in DOMAIN leases : leases[b].owner # in_packet.chaddr

(***************************************************************************)
(* C4  A Request addressed to this server whose resolved address is not    *)
(* available to the sender (live lease of another owner, outside the pool, *)
(* the unspecified address of an empty current-address field) is answered  *)
(* with exactly one Nak with the reason "Requested IP not available", and  *)
(* the lease table and the cursor stay as they were.                       *)
(***************************************************************************)
C4_UnavailableRequestNak ==
    \A p \in RequestPackets :
      (ResolvedRequest(p) /\ ~ isAvailable(p.chaddr, req_ip(p))) =>
        \A r \in Outcomes(p) :
          /\ OneNak(r.sent)
          /\ r.leases = leases
          /\ r.last_lease = last_lease

\* a Request without option and with an empty current-address field was refused
C4_Witness ==
    /\ ResolvedRequest(in_packet)
    /\ in_packet.requested = << >>
    /\ in_packet.ciaddr = Unspecified
    /\ OneNak(sent)
    /\ leases # EmptyMap

(***************************************************************************)
(* C5  Each hardware address owns at most one entry of the lease table.    *)
(***************************************************************************)
C5_OneAddressPerOwner ==
    \A a, b \in DOMAIN leases : leases[a].owner = leases[b].owner => a = b

(***************************************************************************)
(* C6  current_lease(owner) returns the address of the owner's most recent *)
(* Acked Request, and none when the owner never committed or its lease was *)
(* removed by a Release or Decline: right after the owner's Ack it returns *)
(* the Acked address, right after the owner's Release or Decline it        *)
(* returns none, and no other packet changes what it returns.              *)
(***************************************************************************)
C6_CurrentLeaseIsLastCommit ==
    /\ (in_packet.message_type = "Request" /\ Len(sent) = 1 /\ sent[1].msg_type = "Ack") =>
         current_lease(leases, in_packet.chaddr) = { << sent[1].offer_ip >> }
    /\ (in_packet.message_type \in {"Release", "Decline"} /\ in_packet.to_this_server) =>
         current_lease(leases, in_packet.chaddr) = { << >> }
    /\ leases = EmptyMap => \A m \in Macs : current_lease(leases, m) = { << >> }
    /\ \A m \in Macs : \A p \in Packets :
         (p.chaddr # m \/ p.message_type \notin {"Request", "Release", "Decline"}) =>
           \A r \in Outcomes(p) : current_lease(r.leases, m) = current_lease(leases, m)

(***************************************************************************)
(* C7  Request is idempotent: when a Request addressed to this server is   *)
(* Acked, processing the same Request again is Acked too, leaves the same  *)
(* set of addresses in the table, and the entry of the address belongs to  *)
(* the sender.                                                             *)
(***************************************************************************)
C7_RequestIdempotent ==
    \A p \in RequestPackets :
      p.to_this_server =>
        \A r1 \in Outcomes(p) :
          (Len(r1.sent) = 1 /\ r1.sent[1].msg_type = "Ack") =>
            \A r2 \in handle_request(r1.leases, r1.last_lease, now, p) :
              /\ OneReply(r2.sent, "Ack", r1.sent[1].offer_ip)
              /\ DOMAIN r2.leases = DOMAIN r1.leases
              /\ req_ip(p) \in DOMAIN r2.leases
              /\ r2.leases[req_ip(p)].owner = p.chaddr

\* a Request has been Acked and the same Request is Acked again
C7_Witness ==
    /\ ResolvedRequest(in_packet)
    /\ OneReply(sent, "Ack", req_ip(in_packet))
    /\ \E r2 \in Outcomes(in_packet) :
         /\ OneReply(r2.sent, "Ack", req_ip(in_packet))
         /\ DOMAIN r2.leases = DOMAIN leases
    /\ Cardinality(DOMAIN leases) = 2

(***************************************************************************)
(* C8  Every key of the lease table lies in [start, start+count).          *)
(***************************************************************************)
C8_KeysInPool ==
    \A a \in DOMAIN leases : IP_START_NUM <= a /\ a < IP_START_NUM + LEASE_NUM

\* the table is full and a Request for the address above the pool was refused
C8_Witness ==
    /\ DOMAIN leases = PoolAddrs
    /\ ResolvedRequest(in_packet)
    /\ req_ip(in_packet) = IP_START_NUM + LEASE_NUM
    /\ OneNak(sent)

(***************************************************************************)
(* C9  Handling a Discover never changes the lease table, whichever rule   *)
(* produces the Offer and also when no Offer is sent.                      *)
(***************************************************************************)
C9_DiscoverKeepsLeases ==
    \A p \in DiscoverPackets : \A r \in Outcomes(p) : r.leases = leases

\* a Discover was offered an address that has no entry
C9_Witness ==
    /\ in_packet.message_type = "Discover"
    /\ Len(sent) = 1
    /\ sent[1].msg_type = "Offer"
    /\ sent[1].offer_ip \notin DOMAIN leases
    /\ leases # EmptyMap

(***************************************************************************)
(* C10  Discover applies its rules in order: a 4-byte requested-address    *)
(* option naming an address available to the sender is offered, also when  *)
(* the sender holds a lease on another address; otherwise, when the sender *)
(* holds a lease, an address current_lease returns is offered, also when   *)
(* that lease has expired; only when neither applies is the pool probed    *)
(* with the cursor.  Rules 1 and 2 leave the cursor unchanged.             *)
(***************************************************************************)
Rule1(p) ==
    /\ p.requested # << >>
    /\ Len(p.requested[1]) = 4
    /\ isAvailable(p.chaddr, bytes_u32(p.requested[1]))

C10_DiscoverRuleOrder ==
    \A p \in DiscoverPackets :
      \A r \in Outcomes(p) :
        IF Rule1(p)
          THEN /\ OneReply(r.sent, "Offer", bytes_u32(p.requested[1]))
               /\ r.last_lease = last_lease
          ELSE IF Held(leases, p.chaddr) # {}
                 THEN /\ Len(r.sent) = 1
                      /\ r.sent[1].msg_type = "Offer"
                      /\ r.sent[1].offer_ip \in Held(leases, p.chaddr)
                      /\ r.last_lease = last_lease
                 ELSE \/ r.sent = << >>
                      \/ /\ OneReply(r.sent, "Offer", IP_START_NUM + r.last_lease)
                         /\ isAvailable(p.chaddr, IP_START_NUM + r.last_lease)

\* the sender holds a lease on one address and was offered the other address it asked for
C10_Witness ==
    /\ in_packet.message_type = "Discover"
    /\ Rule1(in_packet)
    /\ OneReply(sent, "Offer", bytes_u32(in_packet.requested[1]))
    /\ Held(leases, in_packet.chaddr) # {}
    /\ bytes_u32(in_packet.requested[1]) \notin Held(leases, in_packet.chaddr)

(***************************************************************************)
(* C11  A Discover that reaches the probing of the pool (no usable         *)
(* requested address, the sender holds no lease) sends an Offer exactly    *)
(* when some address of the pool is available to the sender; the address   *)
(* offered is the first available one in cyclic order from cursor + 1, and *)
(* the cursor is left at its offset.  When none is available no reply is   *)
(* sent.                                                                   *)
(***************************************************************************)
\* the Discover p is answered by rule 3
Probing(p) ==
    /\ p.message_type = "Discover"
    /\ ~ Rule1(p)
    /\ Held(leases, p.chaddr) = {}

\* the offsets of the pool addresses available to owner
AvailableOffsets(owner) ==
    { i \in 0 .. (LEASE_NUM - 1) : isAvailable(owner, IP_START_NUM + i) }

\* the offset at distance d after the cursor, cyclically
After(d) == (last_lease + d) % LEASE_NUM

\* the distance from the cursor to the first offset available to owner
FirstDistance(owner) ==
    CHOOSE d \in 1 .. LEASE_NUM :
      /\ After(d) \in AvailableOffsets(owner)
      /\ \A e \in 1 .. (d - 1) : After(e) \notin AvailableOffsets(owner)

C11_ProbeOffersFirstAvailable ==
    \A p \in DiscoverPackets :
      Probing(p) =>
        \A r \in Outcomes(p) :
          IF AvailableOffsets(p.chaddr) = {}
            THEN r.sent = << >>
            ELSE /\ OneReply(r.sent, "Offer", IP_START_NUM + After(FirstDistance(p.chaddr)))
                 /\ r.last_lease = After(FirstDistance(p.chaddr))

\* a probing Discover was offered the address at the cursor while the other
\* address of the pool is held live by another client
C11_Witness ==
    /\ Probing(in_packet)
    /\ OneReply(sent, "Offer", IP_START_NUM + last_lease)
    /\ \E a \in DOMAIN leases :
         /\ a # IP_START_NUM + last_lease
         /\ leases[a].owner # in_packet.chaddr
         /\ leases[a].expires >= now

(***************************************************************************)
(* C12  From the empty table with the cursor at its initial value 0, a     *)
(* Discover without requested-address option is offered start + 1, not the *)
(* first address of the pool: the cursor advances before the candidate is  *)
(* tested, and the first address of the pool is offered by the probing     *)
(* only after the cursor has wrapped around.                               *)
(***************************************************************************)
C12_FirstOfferIsSecondAddress ==
    /\ in_packet = NoPacket => (leases = EmptyMap /\ last_lease = 0)
    /\ (leases = EmptyMap /\ last_lease = 0) =>
         \A p \in DiscoverPackets :
           p.requested = << >> =>
             \A r \in Outcomes(p) :
               /\ OneReply(r.sent, "Offer", IP_START_NUM + 1)
               /\ r.last_lease = 1
    /\ \A p \in DiscoverPackets :
         Probing(p) =>
           \A r \in Outcomes(p) :
             OneReply(r.sent, "Offer", IP_START_NUM) =>
               \A i \in (last_lease + 1) .. (LEASE_NUM - 1) :
                 ~ isAvailable(p.chaddr, IP_START_NUM + i)

\* a Discover without option on the empty table was offered start + 1
C12_Witness ==
    /\ in_packet.message_type = "Discover"
    /\ in_packet.requested = << >>
    /\ leases = EmptyMap
    /\ last_lease = 1
    /\ OneReply(sent, "Offer", IP_START_NUM + 1)

(***************************************************************************)
(* C13  A Release or Decline addressed to this server from a client for    *)
(* which current_lease returns an address a removes the entry of a, leaves *)
(* every other entry and the cursor unchanged and sends no reply; right    *)
(* afterwards a is available to every client.  When the client holds no    *)
(* lease nothing changes and no reply is sent.                             *)
(***************************************************************************)
\* the outcome r is the state without reply and with the cursor unchanged
Silent(r) == r.sent = << >> /\ r.last_lease = last_lease

C13_ReleaseRemovesLease ==
    \A p \in ReleasePackets :
      p.to_this_server =>
        \A r \in Outcomes(p) :
          /\ Silent(r)
          /\ IF Held(leases, p.chaddr) = {}
               THEN r.leases = leases
               ELSE \E a \in Held(leases, p.chaddr) :
                      /\ DOMAIN r.leases = DOMAIN leases \ {a}
                      /\ \A b \in DOMAIN r.leases : r.leases[b] = leases[b]
                      /\ \A x \in Macs : available(r.leases, now, x, a)

\* a Release or Decline to this server was handled: its sender holds no
\* entry, an address of the pool is free, another client's entry is kept
C13_Witness ==
    /\ in_packet.message_type \in {"Release", "Decline"}
    /\ in_packet.to_this_server
    /\ sent = << >>
    /\ Held(leases, in_packet.chaddr) = {}
    /\ PoolAddrs \ DOMAIN leases # {}
    /\ leases # EmptyMap

(***************************************************************************)
(* C14  Ignored messages are no-ops: a Request, Release or Decline that is *)
(* not addressed to this server, and a message of any other type than      *)
(* Discover, Request, Release, Decline, produce no reply and leave the     *)
(* lease table and the cursor unchanged.                                   *)
(***************************************************************************)
Ignored(p) ==
    \/ p.message_type \in {"Request", "Release", "Decline"} /\ ~ p.to_this_server
    \/ p.message_type \notin {"Discover", "Request", "Release", "Decline"}

C14_IgnoredAreNoOps ==
    \A p \in Packets :
      Ignored(p) =>
        \A r \in Outcomes(p) : Silent(r) /\ r.leases = leases

\* a Request to another server for an address free for its sender was ignored
C14_Witness ==
    /\ in_packet.message_type = "Request"
    /\ ~ in_packet.to_this_server
    /\ WellFormed(in_packet)
    /\ req_ip(in_packet) \in PoolAddrs \ DOMAIN leases
    /\ sent = << >>
    /\ leases # EmptyMap

(***************************************************************************)
(* C15  As claimed: a message whose requested-address option is present    *)
(* but not exactly 4 bytes long is silently dropped, be it a Discover or a *)
(* Request: no reply, and neither the lease table nor the cursor changes.  *)
(***************************************************************************)
C15_MalformedDropped ==
    \A p \in DiscoverPackets \cup RequestPackets :
      ~ WellFormed(p) =>
        \A r \in Outcomes(p) : Silent(r) /\ r.leases = leases

(***************************************************************************)
(* C15 amended  A Request whose requested-address option is present but    *)
(* not exactly 4 bytes long is silently dropped: no reply, lease table and *)
(* cursor unchanged.  A Discover with such an option is not dropped: it is *)
(* handled as a Discover without the option (rules 2 and 3), so it may be  *)
(* answered with an Offer and may move the cursor; it never changes the    *)
(* lease table.                                                            *)
(***************************************************************************)
C15_MalformedRequestDropped ==
    /\ \A p \in RequestPackets :
         ~ WellFormed(p) =>
           \A r \in Outcomes(p) : Silent(r) /\ r.leases = leases
    /\ \A p \in DiscoverPackets :
         ~ WellFormed(p) =>
           /\ Outcomes(p) = Outcomes([p EXCEPT !.requested = << >>])
           /\ \A r \in Outcomes(p) : r.leases = leases

\* a Discover with a 3-byte option was answered with an Offer
C15_Witness ==
    /\ in_packet.message_type = "Discover"
    /\ ~ WellFormed(in_packet)
    /\ Len(sent) = 1
    /\ sent[1].msg_type = "Offer"

(***************************************************************************)
(* C16  Lease entries are never deleted because they expired: the passage  *)
(* of time alone never changes the lease table, an entry disappears only   *)
(* through a Release or Decline sent by the hardware address that owns it, *)
(* and the owner or expiry of an entry changes only through an Acked       *)
(* Request for its address.                                                *)
(***************************************************************************)
C16_Step ==
    /\ now' # now => leases' = leases
    /\ \A a \in DOMAIN leases :
         /\ a \notin DOMAIN leases' =>
              /\ in_packet'.message_type \in {"Release", "Decline"}
              /\ in_packet'.chaddr = leases[a].owner
         /\ (a \in DOMAIN leases' /\ leases'[a] # leases[a]) =>
              /\ in_packet'.message_type = "Request"
              /\ OneReply(sent', "Ack", a)

C16_EntriesOutliveExpiry == [][C16_Step]_vars

\* an entry is still in the table after its expiry, another one was released
C16_Witness ==
    /\ \E a \in DOMAIN leases : leases[a].expires < now
    /\ in_packet.message_type \in {"Release", "Decline"}
    /\ in_packet.to_this_server
    /\ PoolAddrs \ DOMAIN leases # {}

(***************************************************************************)
(* C17  As claimed: every Offer carries an address that lies in the pool   *)
(* and is available to the requesting client when it is offered, whichever *)
(* rule produced it; and a Discover that asks for an address held live by  *)
(* another owner is not offered that address but is offered a different    *)
(* one.                                                                    *)
(***************************************************************************)
\* every reply of the outcome r to p offers a pool address available to the sender
OffersAvailable(p, r) ==
    \A i \in 1 .. Len(r.sent) :
      /\ r.sent[i].msg_type = "Offer"
      /\ r.sent[i].offer_ip \in PoolAddrs
      /\ isAvailable(p.chaddr, r.sent[i].offer_ip)

\* the Discover p asks with a 4-byte option for an address another owner holds live
AsksForLiveLeaseOfOther(p) ==
    /\ p.requested # << >>
    /\ Len(p.requested[1]) = 4
    /\ bytes_u32(p.requested[1]) \in DOMAIN leases
    /\ leases[bytes_u32(p.requested[1])].owner # p.chaddr
    /\ leases[bytes_u32(p.requested[1])].expires >= now

C17_OfferAvailableAndDifferent ==
    \A p \in DiscoverPackets :
      \A r \in Outcomes(p) :
        /\ OffersAvailable(p, r)
        /\ AsksForLiveLeaseOfOther(p) =>
             /\ Len(r.sent) = 1
             /\ r.sent[1].offer_ip # bytes_u32(p.requested[1])

(***************************************************************************)
(* C17 amended  Every Offer carries an address that lies in the pool and   *)
(* is available to the requesting client when it is offered, whichever     *)
(* rule produced it; a Discover that asks for an address held live by      *)
(* another owner is never offered that address: it falls through to rules  *)
(* 2 and 3 and is offered a different address, or gets no reply when no    *)
(* address of the pool is available to it.                                 *)
(***************************************************************************)
C17_OfferAvailableNeverLiveOfOther ==
    \A p \in DiscoverPackets :
      \A r \in Outcomes(p) :
        /\ OffersAvailable(p, r)
        /\ AsksForLiveLeaseOfOther(p) =>
             /\ \A i \in 1 .. Len(r.sent) : r.sent[i].offer_ip # bytes_u32(p.requested[1])
             /\ r.sent = << >> <=>
                  (Held(leases, p.chaddr) = {} /\ AvailableOffsets(p.chaddr) = {})

\* a Discover asked for a live lease of another owner and was offered another address
C17_Witness ==
    /\ in_packet.message_type = "Discover"
    /\ AsksForLiveLeaseOfOther(in_packet)
    /\ Len(sent) = 1
    /\ sent[1].msg_type = "Offer"
    /\ sent[1].offer_ip # bytes_u32(in_packet.requested[1])

(***************************************************************************)
(* C18  Every incoming message produces at most one reply: the replies     *)
(* sent for the packet handled last are a Discover's none or one Offer, a  *)
(* Request's none or exactly one of Ack and Nak, and none for Release,     *)
(* Decline and every other type.                                           *)
(***************************************************************************)
C18_AtMostOneReply ==
    /\ Len(sent) <= 1
    /\ in_packet.message_type = "Discover" =>
         \A i \in 1 .. Len(sent) : sent[i].msg_type = "Offer"
    /\ in_packet.message_type = "Request" =>
         \A i \in 1 .. Len(sent) : sent[i].msg_type \in {"Ack", "Nak"}
    /\ in_packet.message_type \notin {"Discover", "Request"} => sent = << >>

\* a probing Discover with several addresses available got exactly one Offer
C18_Witness ==
    /\ Probing(in_packet)
    /\ Cardinality(AvailableOffsets(in_packet.chaddr)) >= 2
    /\ Len(sent) = 1
    /\ sent[1].msg_type = "Offer"

(***************************************************************************)
(* C19  The cursor stays in [0, count) and only the probing of a Discover  *)
(* modifies it: Request, Release, Decline, ignored messages and Discovers  *)
(* answered by rule 1 or rule 2 leave it unchanged, and each probe         *)
(* advances it by exactly one modulo count, up to the first available      *)
(* address or count probes.                                                *)
(***************************************************************************)
C19_CursorInRangeAndProbeOnly ==
    /\ last_lease \in 0 .. (LEASE_NUM - 1)
    /\ \A p \in Packets :
         \A r \in Outcomes(p) :
           /\ r.last_lease \in 0 .. (LEASE_NUM - 1)
           /\ IF Probing(p)
                THEN \E k \in 1 .. LEASE_NUM :
                       /\ r.last_lease = After(k)
                       /\ \A e \in 1 .. (k - 1) : After(e) \notin AvailableOffsets(p.chaddr)
                       /\ k < LEASE_NUM => After(k) \in AvailableOffsets(p.chaddr)
                ELSE r.last_lease = last_lease

\* the probing wrapped the cursor around to the first address of the pool
C19_Witness ==
    /\ Probing(in_packet)
    /\ OneReply(sent, "Offer", IP_START_NUM)
    /\ last_lease = 0
    /\ leases # EmptyMap

(***************************************************************************)
(* C20  A Discover that finds the pool exhausted performs exactly count    *)
(* probes, visits every offset of the pool exactly once and leaves the     *)
(* cursor at its value before the Discover: it changes no state at all.    *)
(***************************************************************************)
C20_ExhaustedDiscoverChangesNothing ==
    \A p \in DiscoverPackets :
      (Probing(p) /\ AvailableOffsets(p.chaddr) = {}) =>
        /\ \A r \in Outcomes(p) :
             /\ r.sent = << >>
             /\ r.last_lease = last_lease
             /\ r.leases = leases
        /\ LET v == probed(leases, now, p.chaddr, last_lease, LEASE_NUM)
           IN  /\ Len(v) = LEASE_NUM
               /\ { v[i] : i \in 1 .. Len(v) } = 0 .. (LEASE_NUM - 1)
               /\ v[Len(v)] = last_lease

\* a Discover found every address of the pool held live by the other client
C20_Witness ==
    /\ Probing(in_packet)
    /\ AvailableOffsets(in_packet.chaddr) = {}
    /\ DOMAIN leases = PoolAddrs
    /\ sent = << >>
====
